---- MODULE Spec2Model ----
(***************************************************************************)
(* Model of the telemetry pipeline of crates/client2/src/telemetry.rs:     *)
(* the state behind Telemetry::state (a parking_lot Mutex), the operations *)
(* start, set_authenticated_user_info, report_clickhouse_event and         *)
(* flush_clickhouse_events, the debounce timer task and the detached task  *)
(* that ships a batch.  One action is one critical section of the mutex    *)
(* (or one step outside it), so that callers, timer tasks and shipping     *)
(* tasks interleave exactly where the code releases the lock.              *)
(***************************************************************************)
EXTENDS Integers, Sequences, FiniteSets, Bags, TLC

\* ---------------------------------------------------------------- bounds
\* Number of events report_clickhouse_event accepts in one run.
MaxEvents == 3
\* Stand-in for the release value of MAX_QUEUE_LEN (10 in the source).
ReleaseQueueLen == 3
\* Stand-in for the release value of DEBOUNCE_INTERVAL (30 s), in clock ticks.
ReleaseDebounce == 1
\* Number of threads that call into the Telemetry object concurrently.
NumThreads == 2
\* Number of start calls in one run (each spawns one sampler loop).
MaxStarts == 2

VARIABLES
    build,                         \* "debug" | "release": cfg(debug_assertions)
    metrics_id,                    \* TelemetryState.metrics_id
    installation_id,               \* TelemetryState.installation_id
    session_id,                    \* TelemetryState.session_id
    is_staff,                      \* TelemetryState.is_staff
    clickhouse_events_queue,       \* TelemetryState.clickhouse_events_queue
    flush_clickhouse_events_task,  \* TelemetryState.flush_clickhouse_events_task
    log_file,                      \* TelemetryState.log_file is Some
    lock,                          \* who holds the mutex around TelemetryState
    log,                           \* lines appended to the log file
    timers,                        \* debounce timer tasks alive on the executor
    tasks,                         \* bag of the shipping tasks spawned by flush
    posted,                        \* bag of the requests given to post_json
    pc,                            \* how many calling threads are at each place
    samplers,                      \* live sampler loops spawned by start
    starts,                        \* number of start calls made
    nextEvent,                     \* number of the next accepted event
    sinceEnqueue,                  \* clock ticks since the last push, capped
    taken,                         \* bag of the queue contents at each mem::take
    denied,                        \* flips on every consent-denied call
    errors                         \* flips on every error that log_err logs

vars == <<build, metrics_id, installation_id, session_id, is_staff,
          clickhouse_events_queue, flush_clickhouse_events_task, log_file, lock,
          log, timers, tasks, posted, pc, samplers, starts, nextEvent,
          sinceEnqueue, taken, denied, errors>>

\* The fields of TelemetryState that the operations write.
telemetryState == <<metrics_id, installation_id, session_id, is_staff,
                    clickhouse_events_queue, flush_clickhouse_events_task,
                    log_file>>

None == "None"
InstallationIds == {None, "abc"}
SessionIds == {"s1"}
\* The arguments of set_authenticated_user_info (metrics_id, is_staff, the
\* bool written as a string beside None): a staff user signs in, or the
\* user signs out.
AuthInputs == {<<"m1", "true">>, <<None, "false">>}
\* Where a calling thread can be between two critical sections: about to call
\* flush_clickhouse_events from report_clickhouse_event, from start, or from
\* one of the sampler's two reports, or about to make the sampler's second
\* report.
Places == {"report_flush", "start_flush", "sampler_mem_flush", "sampler_cpu",
           "sampler_cpu_flush"}
\* The sampler loops that are in the middle of a tick.
InTick == pc["sampler_mem_flush"] + pc["sampler_cpu"] + pc["sampler_cpu_flush"]
Busy == pc["report_flush"] + pc["start_flush"] + InTick
\* `self.state.lock()` returns: nobody else holds the mutex.
LockFree == lock = "free"
\* Some thread is free to make a call.
SomeIdle == Busy < NumThreads
Enter(place) == [pc EXCEPT ![place] = @ + 1]
Leave(place) == [pc EXCEPT ![place] = @ - 1]
Move(from, to) == [pc EXCEPT ![from] = @ - 1, ![to] = @ + 1]

\* Mutant of MAX_QUEUE_LEN: the debug value is 2.
MaxQueueLenTwo == IF build = "debug" THEN 2 ELSE ReleaseQueueLen

MAX_QUEUE_LEN == IF build = "debug" THEN 1 ELSE ReleaseQueueLen
DEBOUNCE_INTERVAL == IF build = "debug" THEN 1 ELSE ReleaseDebounce

Init ==
    /\ build \in {"debug", "release"}
    /\ metrics_id = None
    /\ installation_id = None
    /\ session_id = None
    /\ is_staff = None
    /\ clickhouse_events_queue = <<>>
    /\ flush_clickhouse_events_task = 0
    /\ log_file = FALSE
    /\ lock = "free"
    /\ log = <<>>
    /\ timers = {}
    /\ tasks = EmptyBag
    /\ posted = EmptyBag
    /\ pc = [p \in Places |-> 0]
    /\ samplers = 0
    /\ starts = 0
    /\ nextEvent = 1
    /\ sinceEnqueue = 0
    /\ taken = EmptyBag
    /\ denied = 0
    /\ errors = 0

\* ------------------------------------------------------------ helpers
Min(a, b) == IF a < b THEN a ELSE b

\* Mutant of ConsentGate: the setting is not consulted.
ConsentGateAlways(metrics) == TRUE

\* `if !telemetry_settings.metrics { return; }`: TRUE when the call goes on.
ConsentGate(metrics) == metrics

\* ClickhouseEventWrapper { signed_in, event } built under the lock.
\* The payload is opaque to the pipeline: an event is known by its number.
Wrap ==
    [id |-> nextEvent, signed_in |-> (metrics_id # None)]

\* Vec::push.
Push(q, w) == Append(q, w)

\* Mutant of ReachedThreshold: `>` for `>=`.
ReachedThresholdStrict(q) == Len(q) > MAX_QUEUE_LEN

\* `state.clickhouse_events_queue.len() >= MAX_QUEUE_LEN`.
ReachedThreshold(q) == Len(q) >= MAX_QUEUE_LEN

\* Mutant of InstallationIdIsSome: the policy runs without an installation id.
InstallationIdIsSomeAlways == TRUE

\* `state.installation_id.is_some()`.
InstallationIdIsSome == installation_id # None

\* Mutant of HasClickhouseEvents: start never flushes.
HasClickhouseEventsNever(q) == FALSE

\* Mutant of HasClickhouseEvents: start flushes whatever the queue holds.
HasClickhouseEventsAlways(q) == TRUE

\* `!state.clickhouse_events_queue.is_empty()` in start.
HasClickhouseEvents(q) == q # <<>>

\* Mutant of TakeQueue: the queue is cloned, not taken.
TakeQueueKeep(q) == q

\* What mem::take leaves behind in the queue.
TakeQueue(q) == <<>>

\* Mutant of TakenEvents: the oldest event is dropped from the batch.
TakenEventsTail(q) == IF q = <<>> THEN q ELSE Tail(q)

\* What mem::take hands to the shipping task.
TakenEvents(q) == q

\* Mutant of TakeHandle: the handle is left in place.
TakeHandleKeep(h) == h

\* `state.flush_clickhouse_events_task.take()`: what is left in the field.
TakeHandle(h) == 0

\* Dropping the Task handle h cancels the timer task it names, unless that
\* task is already past its timer await (it then runs on to its flush).
CancelTask(ts, h) == {x \in ts : ~(x.id = h /\ ~x.fired)}

\* executor.spawn of the debounce task for the event just pushed.
NewTimer(id) == [id |-> id, remaining |-> DEBOUNCE_INTERVAL, fired |-> FALSE]

\* Mutant of InstallTimer: the new task is never spawned.
InstallTimerUnspawned(ts, h, id) == CancelTask(ts, h)

\* Mutant of InstallTimer: the previous task is kept alive (detached).
InstallTimerNoCancel(ts, h, id) == ts \cup {NewTimer(id)}

\* `state.flush_clickhouse_events_task = Some(spawn(..))`: the timers after the
\* assignment has dropped the previous handle.
InstallTimer(ts, h, id) == CancelTask(ts, h) \cup {NewTimer(id)}

\* The shipping task as spawned by flush_clickhouse_events.
NewTask(events) ==
    [events |-> events, st |-> "log", mirrored |-> FALSE,
     installation_id |-> None, session_id |-> None, is_staff |-> None]

\* Mutant of RequestBody: signed_in is computed again when the body is sent.
RequestBodyResigned(task) ==
    [events |-> [i \in 1 .. Len(task.events) |->
                    [task.events[i] EXCEPT !.signed_in = (metrics_id # None)]],
     installation_id |-> task.installation_id,
     session_id |-> task.session_id, is_staff |-> task.is_staff]

\* ClickhouseEventRequestBody: the fields that change during a run (the
\* token, the versions, the architecture and the channel are fixed).
RequestBody(task) ==
    [events |-> task.events, installation_id |-> task.installation_id,
     session_id |-> task.session_id, is_staff |-> task.is_staff]

\* ------------------------------------------------- critical sections
\* report_clickhouse_event from the lock to the branch it takes: `after` is
\* the pc when the call does not flush, `flushing` the pc when it has
\* dropped the lock and is about to call flush_clickhouse_events.
ReportLocked(after, flushing) ==
    LET w == Wrap
        q == Push(clickhouse_events_queue, w)
    IN  /\ LockFree
        /\ clickhouse_events_queue' = q
        /\ nextEvent' = nextEvent + 1
        /\ sinceEnqueue' = 0
        /\ IF InstallationIdIsSome
           THEN IF ReachedThreshold(q)
                THEN /\ pc' = flushing
                     /\ UNCHANGED <<timers, flush_clickhouse_events_task>>
                ELSE /\ timers' = InstallTimer(timers,
                                               flush_clickhouse_events_task, w.id)
                     /\ flush_clickhouse_events_task' = w.id
                     /\ pc' = after
           ELSE /\ pc' = after
                /\ UNCHANGED <<timers, flush_clickhouse_events_task>>
        /\ UNCHANGED <<build, metrics_id, installation_id, session_id, is_staff,
                       log_file, lock, log, tasks, posted, samplers, taken, errors, starts>>

\* flush_clickhouse_events from the lock to the spawn of the shipping task;
\* `rest` is the timer tasks without the one that is calling, if one is.
FlushLocked(rest) ==
    /\ LockFree
    /\ clickhouse_events_queue' = TakeQueue(clickhouse_events_queue)
    /\ timers' = CancelTask(rest, flush_clickhouse_events_task)
    /\ flush_clickhouse_events_task' = TakeHandle(flush_clickhouse_events_task)
    /\ taken' = taken (+) SetToBag({clickhouse_events_queue})
    /\ tasks' = tasks (+) SetToBag({NewTask(TakenEvents(clickhouse_events_queue))})
    /\ UNCHANGED <<build, metrics_id, installation_id, session_id, is_staff,
                   log_file, lock, log, posted, samplers, nextEvent, sinceEnqueue,
                   denied, errors, starts>>

\* ---------------------------------------------------------- operations
\* Telemetry::start up to drop(state), with the spawn of the sampler.
Start(iid, sid) ==
    /\ SomeIdle
    /\ LockFree
    /\ starts < MaxStarts
    /\ starts' = starts + 1
    /\ samplers' = samplers + 1
    /\ installation_id' = iid
    /\ session_id' = sid
    /\ pc' = IF HasClickhouseEvents(clickhouse_events_queue)
             THEN Enter("start_flush") ELSE pc
    /\ UNCHANGED <<build, metrics_id, is_staff, clickhouse_events_queue,
                   flush_clickhouse_events_task, log_file, lock, log, timers, tasks,
                   posted, nextEvent, sinceEnqueue, taken, denied, errors>>

\* Telemetry::set_authenticated_user_info.
SetAuthenticatedUserInfo(mid, staff, metrics) ==
    /\ SomeIdle
    /\ denied' = IF metrics THEN denied ELSE 1 - denied
    /\ IF ConsentGate(metrics)
       THEN /\ LockFree
            /\ metrics_id' = mid
            /\ is_staff' = staff
       ELSE UNCHANGED <<metrics_id, is_staff>>
    /\ UNCHANGED <<build, installation_id, session_id, clickhouse_events_queue,
                   flush_clickhouse_events_task, log_file, lock, log, timers, tasks,
                   posted, pc, samplers, nextEvent, sinceEnqueue, taken, errors, starts>>

\* Telemetry::report_clickhouse_event called by the application.
ReportClickhouseEvent(metrics) ==
    /\ SomeIdle
    /\ nextEvent <= MaxEvents
    /\ denied' = IF metrics THEN denied ELSE 1 - denied
    /\ IF ConsentGate(metrics)
       THEN ReportLocked(pc, Enter("report_flush"))
       ELSE UNCHANGED <<build, metrics_id, installation_id, session_id, is_staff,
                        clickhouse_events_queue, flush_clickhouse_events_task,
                        log_file, lock, log, timers, tasks, posted, pc, samplers,
                        nextEvent, sinceEnqueue, taken, errors, starts>>

\* The call of flush_clickhouse_events that start or report_clickhouse_event
\* makes after dropping the lock.
CallerFlush(place) ==
    /\ place \in {"report_flush", "start_flush", "sampler_mem_flush",
                  "sampler_cpu_flush"}
    /\ pc[place] > 0
    /\ pc' = IF place = "sampler_mem_flush"
             THEN Move(place, "sampler_cpu") ELSE Leave(place)
    /\ FlushLocked(timers)

\* ------------------------------------------------------- debounce timer
\* The clock advances by one tick.
Tick ==
    /\ \/ sinceEnqueue < DEBOUNCE_INTERVAL
       \/ \E x \in timers : ~x.fired /\ x.remaining > 0
    /\ sinceEnqueue' = Min(sinceEnqueue + 1, DEBOUNCE_INTERVAL)
    /\ timers' = {IF ~x.fired /\ x.remaining > 0
                  THEN [x EXCEPT !.remaining = x.remaining - 1] ELSE x : x \in timers}
    /\ UNCHANGED <<build, metrics_id, installation_id, session_id, is_staff,
                   clickhouse_events_queue, flush_clickhouse_events_task,
                   log_file, lock, log, tasks, posted, pc, samplers, nextEvent,
                   taken, denied, errors, starts>>

\* `executor.timer(DEBOUNCE_INTERVAL).await` returns in timer task x.
TimerExpire(x) ==
    /\ x \in timers
    /\ ~x.fired
    /\ x.remaining = 0
    /\ timers' = (timers \ {x}) \cup {[x EXCEPT !.fired = TRUE]}
    /\ UNCHANGED <<build, metrics_id, installation_id, session_id, is_staff,
                   clickhouse_events_queue, flush_clickhouse_events_task,
                   log_file, lock, log, tasks, posted, pc, samplers, nextEvent,
                   sinceEnqueue, taken, denied, errors, starts>>

\* `this.flush_clickhouse_events()` in timer task x, which then ends.
TimerFlush(x) ==
    /\ x \in timers
    /\ x.fired
    /\ FlushLocked(timers \ {x})
    /\ UNCHANGED pc

\* ------------------------------------------------------- shipping task
\* Task k of the bag replaced by task r.
Replace(k, r) == (tasks (-) SetToBag({k})) (+) SetToBag({r})

\* `if let Some(file) = &mut this.state.lock().log_file`: the guard is a
\* temporary of the scrutinee, so with a file it lives until the end of the
\* `if let` body; without a file the step is over at once.
TaskLog(k) ==
    /\ BagIn(k, tasks)
    /\ k.st = "log"
    /\ LockFree
    /\ IF log_file
       THEN /\ lock' = "task"
            /\ tasks' = Replace(k, [k EXCEPT !.st = "write"])
       ELSE /\ lock' = lock
            /\ tasks' = Replace(k, [k EXCEPT !.st = "body"])
    /\ UNCHANGED <<build, metrics_id, installation_id, session_id, is_staff,
                   clickhouse_events_queue, flush_clickhouse_events_task,
                   log_file, log, timers, posted, pc, samplers, nextEvent,
                   sinceEnqueue, taken, denied, errors, starts>>

\* The lines the loop has appended when n events went through.
Written(events, n) == SubSeq(events, 1, n)

\* Mutant of AfterWrite: a failed write does not end the task.
AfterWriteIgnoreFailure(k, ok) ==
    Replace(k, [k EXCEPT !.st = "body", !.mirrored = TRUE])

\* The tasks after the loop of task k: `?` ends the task on a failure.
AfterWrite(k, ok) ==
    IF ok THEN Replace(k, [k EXCEPT !.st = "body", !.mirrored = TRUE])
          ELSE tasks (-) SetToBag({k})

\* The `for event in &mut events` loop of task k, run with the guard alive:
\* n events are serialized and written, then the loop is through (ok) or
\* to_writer, write_all or write has failed; the guard is dropped either way.
TaskWrite(k, n, ok) ==
    /\ BagIn(k, tasks)
    /\ k.st = "write"
    /\ n \in 0 .. Len(k.events)
    /\ ok => n = Len(k.events)
    /\ log' = log \o Written(k.events, n)
    /\ tasks' = AfterWrite(k, ok)
    /\ errors' = IF ok THEN errors ELSE 1 - errors
    /\ lock' = "free"
    /\ UNCHANGED <<build, metrics_id, installation_id, session_id, is_staff,
                   clickhouse_events_queue, flush_clickhouse_events_task,
                   log_file, timers, posted, pc, samplers, nextEvent,
                   sinceEnqueue, taken, denied, starts>>

\* The block that builds ClickhouseEventRequestBody under the lock.
TaskBody(k) ==
    /\ BagIn(k, tasks)
    /\ k.st = "body"
    /\ LockFree
    /\ tasks' = Replace(k, [k EXCEPT !.st = "post",
                                     !.installation_id = installation_id,
                                     !.session_id = session_id,
                                     !.is_staff = is_staff])
    /\ UNCHANGED <<build, metrics_id, installation_id, session_id, is_staff,
                   clickhouse_events_queue, flush_clickhouse_events_task,
                   log_file, lock, log, timers, posted, pc, samplers, nextEvent,
                   sinceEnqueue, taken, denied, errors, starts>>

\* Mutant of Finish: a failed post leaves the task where it was.
FinishRetry(k, ok) == IF ok THEN tasks (-) SetToBag({k}) ELSE tasks

\* The tasks after `post_json(..).await?; anyhow::Ok(())` and log_err: the
\* block of task k is over whatever the result.
Finish(k, ok) == tasks (-) SetToBag({k})

\* http_client.post_json(..).await, which succeeds or fails; log_err
\* swallows the failure.
TaskPost(k, ok) ==
    /\ BagIn(k, tasks)
    /\ k.st = "post"
    /\ posted' = posted (+) SetToBag({RequestBody(k)})
    /\ errors' = IF ok THEN errors ELSE 1 - errors
    /\ tasks' = Finish(k, ok)
    /\ UNCHANGED <<build, metrics_id, installation_id, session_id, is_staff,
                   clickhouse_events_queue, flush_clickhouse_events_task,
                   log_file, lock, log, timers, pc, samplers, nextEvent,
                   sinceEnqueue, taken, denied, starts>>

\* A log file is handed to the pipeline (the handle is created outside the
\* operations modelled here).
OpenLogFile ==
    /\ ~log_file
    /\ LockFree
    /\ log_file' = TRUE
    /\ UNCHANGED <<build, metrics_id, installation_id, session_id, is_staff,
                   clickhouse_events_queue, flush_clickhouse_events_task, lock,
                   log, timers, tasks, posted, pc, samplers, nextEvent,
                   sinceEnqueue, taken, denied, errors, starts>>

\* ------------------------------------------------------------- sampler
\* Mutant of LoopAlive: a loop that has ended ticks on.
LoopAliveAlways(n) == TRUE

\* Some sampler loop is waiting for its next tick: of the n loops that have
\* not left through `return` or `break`, not all are in the middle of a tick.
LoopAlive(n) == n > InTick

\* One tick of a sampler loop whose process lookup or settings read fails:
\* the loop ends.
SamplerStop ==
    /\ samplers > InTick
    /\ samplers' = samplers - 1
    /\ UNCHANGED <<build, metrics_id, installation_id, session_id, is_staff,
                   clickhouse_events_queue, flush_clickhouse_events_task,
                   log_file, lock, log, timers, tasks, posted, pc, nextEvent,
                   sinceEnqueue, taken, denied, errors, starts>>

\* One tick of a sampler loop up to `report_clickhouse_event(memory_event, ..)`.
SamplerMemory(metrics) ==
    /\ LoopAlive(samplers)
    /\ SomeIdle
    /\ nextEvent + 1 <= MaxEvents
    /\ denied' = IF metrics THEN denied ELSE 1 - denied
    /\ IF ConsentGate(metrics)
       THEN ReportLocked(Enter("sampler_cpu"), Enter("sampler_mem_flush"))
       ELSE UNCHANGED <<build, metrics_id, installation_id, session_id, is_staff,
                        clickhouse_events_queue, flush_clickhouse_events_task,
                        log_file, lock, log, timers, tasks, posted, pc, samplers,
                        nextEvent, sinceEnqueue, taken, errors, starts>>

\* `report_clickhouse_event(cpu_event, ..)` of the same tick, with the same
\* settings snapshot.
SamplerCpu ==
    /\ pc["sampler_cpu"] > 0
    /\ ReportLocked(Leave("sampler_cpu"),
                    Move("sampler_cpu", "sampler_cpu_flush"))
    /\ UNCHANGED denied

\* The pipeline with consent enabled in every call, nobody signing in and
\* every post succeeding: the flush policy, the timers and the shipping
\* tasks.  The reports of a sampler tick are two reports of one thread.
Next ==
    \/ \E iid \in InstallationIds, sid \in SessionIds : Start(iid, sid)
    \/ ReportClickhouseEvent(TRUE)
    \/ \E place \in Places : CallerFlush(place)
    \/ Tick
    \/ \E x \in timers : TimerExpire(x)
    \/ \E x \in timers : TimerFlush(x)
    \/ \E k \in BagToSet(tasks) : TaskLog(k)
    \/ \E k \in BagToSet(tasks) : TaskBody(k)
    \/ \E k \in BagToSet(tasks) : TaskPost(k, TRUE)

Spec == Init /\ [][Next]_vars

\* The same with the consent setting on or off in every call and with
\* set_authenticated_user_info.  It runs one event and one start call short
\* of Spec.
ConsentStep ==
    \/ Next
    \/ \E a \in AuthInputs, m \in BOOLEAN :
           SetAuthenticatedUserInfo(a[1], a[2], m)
    \/ ReportClickhouseEvent(FALSE)

ConsentNext == ConsentStep /\ nextEvent' <= MaxEvents /\ starts' < MaxStarts

ConsentSpec == Init /\ [][ConsentNext]_vars

\* The same as Spec with posts that fail.
FailNext ==
    \/ Next
    \/ \E k \in BagToSet(tasks) : TaskPost(k, FALSE)

FailSpec == Init /\ [][FailNext]_vars

\* The same as Spec with a log file that is handed over at some moment and
\* with writes that fail.  It runs one event and one start call short of
\* Spec.
LogStep ==
    \/ Next
    \/ OpenLogFile
    \/ \E k \in BagToSet(tasks) : \E n \in 0 .. MaxEvents, ok \in BOOLEAN :
           TaskWrite(k, n, ok)

LogNext == LogStep /\ nextEvent' <= MaxEvents /\ starts' < MaxStarts

LogSpec == Init /\ [][LogNext]_vars

\* Spec with the executor running every timer task and every caller on:
\* the clock advances, a timer that is due fires, and a thread that is about
\* to call flush_clickhouse_events calls it.
LiveSpec ==
    /\ Spec
    /\ WF_vars(Tick)
    /\ WF_vars(\E x \in timers : TimerExpire(x))
    /\ WF_vars(\E x \in timers : TimerFlush(x))
    /\ WF_vars(\E place \in Places : CallerFlush(place))

\* The same as Spec with the sampler loops ticking.
SamplerNext ==
    \/ Next
    \/ SamplerStop
    \/ \E m \in BOOLEAN : SamplerMemory(m)
    \/ SamplerCpu

SamplerSpec == Init /\ [][SamplerNext]_vars

\* ================================================================ claims
\* Steps, as seen from the state before and after.
ReportStep == nextEvent' # nextEvent
FlushStep == taken' # taken
StartStep == starts' # starts
DeniedStep == denied' # denied
\* The timer tasks that are still waiting for their timer.
Waiting(ts) == {x \in ts : ~x.fired}
\* The ids of the events of a batch.
Ids(b) == {b[i].id : i \in 1 .. Len(b)}
\* A batch lists its events oldest first: event numbers grow.
InEnqueueOrder(b) == \A i, j \in 1 .. Len(b) : i < j => b[i].id < b[j].id
\* The event lists of the shipping tasks and of the requests posted.
Shipped == BagToSet(tasks) \cup BagToSet(posted)

\* ------------------------------------------------------------------ C1
\* C1: a report_clickhouse_event or set_authenticated_user_info call made
\* with the metrics setting disabled changes no field of the telemetry
\* state, installs or cancels no timer, starts no flush and makes no
\* request.
C1_ConsentGate ==
    [][DeniedStep => UNCHANGED <<telemetryState, timers, pc, tasks, posted,
                                 taken, log, nextEvent>>]_vars

\* A denied call was made while a user was signed in, an event was queued
\* and its debounce timer was pending.
C1_Witness ==
    /\ denied = 1
    /\ metrics_id = "m1"
    /\ installation_id # None
    /\ clickhouse_events_queue # <<>>
    /\ flush_clickhouse_events_task # 0

\* ------------------------------------------------------------------ C2
\* C2: while installation_id is unset, a consent-enabled report only appends
\* its event: the queue grows by exactly that one event at its end, no
\* timer is installed, no flush is started and no request is made, whatever
\* the queue length.
C2_PreStartBuffering ==
    [][(ReportStep /\ installation_id = None) =>
          /\ clickhouse_events_queue'
               = Append(clickhouse_events_queue,
                        [id |-> nextEvent, signed_in |-> (metrics_id # None)])
          /\ UNCHANGED <<timers, flush_clickhouse_events_task, pc, tasks,
                         posted, taken>>]_vars

\* MaxEvents events, at least MAX_QUEUE_LEN of them, were buffered before
\* any start call, with no timer and no request.
C2_Witness ==
    /\ build = "release"
    /\ starts = 0
    /\ installation_id = None
    /\ Len(clickhouse_events_queue) = MaxEvents
    /\ Len(clickhouse_events_queue) >= MAX_QUEUE_LEN
    /\ timers = {}
    /\ posted = EmptyBag

\* ------------------------------------------------------------------ C3
\* C3: no flush happens while installation_id is unset: the queue is not
\* drained and no request is posted in a state where installation_id is
\* unset.
C3_NoFlushWhileUnset ==
    [][(FlushStep \/ posted' # posted) => installation_id # None]_vars

\* ------------------------------------------------------------------ C4
\* C4: with installation_id set and fewer than MAX_QUEUE_LEN events reported
\* since the queue was empty, no flush happens before DEBOUNCE_INTERVAL has
\* elapsed since the most recent enqueue.  (One start call, its flush done
\* and no caller between its lock and its flush: the flush is a timer's.)
C4_NoFlushBeforeDebounce ==
    [][(/\ FlushStep
        /\ starts = 1
        /\ installation_id # None
        /\ Busy = 0
        /\ clickhouse_events_queue # <<>>
        /\ Len(clickhouse_events_queue) < MAX_QUEUE_LEN)
       => sinceEnqueue = DEBOUNCE_INTERVAL]_vars

\* ------------------------------------------------------------------ C5
\* C5: with installation_id set, the report that brings the queue to
\* MAX_QUEUE_LEN sends its caller straight to flush_clickhouse_events and
\* installs no timer, whether or not a timer is pending, while a report that
\* leaves the queue shorter starts no flush; the caller's flush takes the
\* whole queue in enqueue order as one batch for one shipping task, and
\* leaves no pending timer.
C5_ThresholdTrigger ==
    /\ [][(ReportStep /\ installation_id # None) =>
            IF Len(clickhouse_events_queue') >= MAX_QUEUE_LEN
            THEN /\ pc' = Enter("report_flush")
                 /\ UNCHANGED <<timers, flush_clickhouse_events_task>>
            ELSE pc' = pc]_vars
    /\ [][(pc["report_flush"] > 0 /\ pc' = Leave("report_flush")) =>
            /\ tasks' = tasks (+) SetToBag({NewTask(clickhouse_events_queue)})
            /\ InEnqueueOrder(clickhouse_events_queue)
            /\ clickhouse_events_queue' = <<>>
            /\ flush_clickhouse_events_task' = 0
            /\ Waiting(timers') = {}]_vars

\* MAX_QUEUE_LEN events were reported after start, the last one with a timer
\* pending, and one flush took them all: one batch, one task, no timer left.
C5_Witness ==
    /\ build = "release"
    /\ installation_id # None
    /\ nextEvent = MAX_QUEUE_LEN + 1
    /\ clickhouse_events_queue = <<>>
    /\ timers = {}
    /\ flush_clickhouse_events_task = 0
    /\ Busy = 0
    /\ BagCardinality(taken) = 1
    /\ \E k \in BagToSet(tasks) \cup BagToSet(posted) :
           /\ Len(k.events) = MAX_QUEUE_LEN
           /\ \A i \in 1 .. Len(k.events) : k.events[i].id = i

\* ------------------------------------------------------------------ C6
\* C6: the event list of every shipping task and of every request is the
\* queue as it was at one mem::take, oldest event first; a later report
\* changes no batch, task or request, and its event goes to the queue.
C6_BatchIntegrity ==
    /\ [](\A k \in Shipped :
              /\ BagIn(k.events, taken)
              /\ InEnqueueOrder(k.events))
    /\ [](BagCardinality(tasks) + BagCardinality(posted) = BagCardinality(taken))
    /\ [][ReportStep =>
            /\ UNCHANGED <<tasks, posted, taken>>
            /\ clickhouse_events_queue'[Len(clickhouse_events_queue')].id
                 = nextEvent]_vars

\* A request of two events was posted and a later event waits in the queue.
C6_Witness ==
    \E r \in BagToSet(posted) :
        /\ Len(r.events) = 2
        /\ clickhouse_events_queue # <<>>
        /\ clickhouse_events_queue[1].id > r.events[2].id

\* ------------------------------------------------------------------ C7
\* C7: before the first start nothing is flushed, so the queue holds every
\* event reported so far in order; a start call on a non-empty queue sends
\* its caller to exactly one flush and on an empty queue to none; that flush
\* takes the whole queue as one batch and leaves the queue empty.
C7_StartDeliversBuffer ==
    /\ [](starts = 0 =>
            /\ Len(clickhouse_events_queue) = nextEvent - 1
            /\ \A i \in 1 .. Len(clickhouse_events_queue) :
                   clickhouse_events_queue[i].id = i
            /\ taken = EmptyBag)
    /\ [][StartStep =>
            /\ pc' = IF clickhouse_events_queue # <<>>
                     THEN Enter("start_flush") ELSE pc
            /\ UNCHANGED <<clickhouse_events_queue, tasks, taken>>]_vars
    /\ [][(pc["start_flush"] > 0 /\ pc' = Leave("start_flush")) =>
            /\ tasks' = tasks (+) SetToBag({NewTask(clickhouse_events_queue)})
            /\ taken' = taken (+) SetToBag({clickhouse_events_queue})
            /\ clickhouse_events_queue' = <<>>]_vars

\* MaxEvents events were buffered, start supplied an installation id and
\* its flush took them all as the only batch.
C7_Witness ==
    /\ starts = 1
    /\ installation_id = "abc"
    /\ session_id = "s1"
    /\ nextEvent = MaxEvents + 1
    /\ clickhouse_events_queue = <<>>
    /\ Busy = 0
    /\ BagCardinality(taken) = 1
    /\ \E b \in BagToSet(taken) :
           /\ Len(b) = MaxEvents
           /\ \A i \in 1 .. Len(b) : b[i].id = i

\* ------------------------------------------------------------------ C8
\* C8: at most one debounce timer is waiting, and it is the one the handle
\* names; a report that installs a timer leaves only the new one waiting;
\* a flush clears the handle and empties the queue in one step, and leaves
\* no timer waiting.
C8_OneTimer ==
    /\ [](/\ Cardinality(Waiting(timers)) <= 1
          /\ \A x \in Waiting(timers) : x.id = flush_clickhouse_events_task)
    /\ [][(flush_clickhouse_events_task' \notin {0, flush_clickhouse_events_task})
            => Waiting(timers') = {NewTimer(flush_clickhouse_events_task')}]_vars
    /\ [][FlushStep =>
            /\ flush_clickhouse_events_task' = 0
            /\ clickhouse_events_queue' = <<>>
            /\ Waiting(timers') = {}]_vars

\* The second event's timer has replaced the first event's timer.
C8_Witness ==
    /\ Len(clickhouse_events_queue) = 2
    /\ flush_clickhouse_events_task = clickhouse_events_queue[2].id
    /\ Waiting(timers) = {NewTimer(clickhouse_events_queue[2].id)}
    /\ taken = EmptyBag

\* ------------------------------------------------------------------ C9
\* C9: a flush that finds the queue already emptied is a no-op: no request
\* with an empty event list is submitted to the transport.
C9_EmptyFlushNoOp ==
    \A r \in BagToSet(posted) : r.events # <<>>

\* ----------------------------------------------------------------- C10
\* How often event number n is in batch b.
CountIn(n, b) == Cardinality({i \in 1 .. Len(b) : b[i].id = n})
\* The batches that hold event number n.
BatchesWith(n, bag) == {b \in BagToSet(bag) : n \in Ids(b)}
\* Event n is in the queue once and in no batch, or in one batch once.
InOnePlace(n) ==
    \/ /\ CountIn(n, clickhouse_events_queue) = 1
       /\ BatchesWith(n, taken) = {}
    \/ /\ CountIn(n, clickhouse_events_queue) = 0
       /\ \E b \in BagToSet(taken) :
              /\ BatchesWith(n, taken) = {b}
              /\ CopiesIn(b, taken) = 1
              /\ CountIn(n, b) = 1
\* The shipping tasks or requests of a bag that list event number n.
Listing(n, bag) ==
    [k \in {k \in BagToSet(bag) : n \in Ids(k.events)} |-> bag[k]]
\* Event n is in at most one shipping task or request.
InOneRequest(n) ==
    BagCardinality(Listing(n, tasks)) + BagCardinality(Listing(n, posted)) <= 1

\* C10: every accepted event is in the queue or in exactly one taken batch,
\* never both, and in at most one request; the queue only ever changes by
\* one appended event or by becoming empty.
C10_NoDoubleDelivery ==
    /\ [](\A n \in 1 .. (nextEvent - 1) : InOnePlace(n) /\ InOneRequest(n))
    /\ [][\/ clickhouse_events_queue' = clickhouse_events_queue
          \/ clickhouse_events_queue' = <<>>
          \/ /\ Len(clickhouse_events_queue') = Len(clickhouse_events_queue) + 1
             /\ SubSeq(clickhouse_events_queue', 1, Len(clickhouse_events_queue))
                  = clickhouse_events_queue]_vars

\* Two flushes and a later event: two batches taken, two requests posted,
\* the last event still queued.
C10_Witness ==
    /\ BagCardinality(posted) = 2
    /\ \A r \in BagToSet(posted) : r.events # <<>>
    /\ clickhouse_events_queue # <<>>
    /\ nextEvent = MaxEvents + 1

\* ----------------------------------------------------------------- C11
\* C11: the mutex is not held while a flush appends events to the log file
\* or hands the request to the transport: every step that writes to the log
\* or posts a request starts in a state where the lock is free.
C11_NoIoUnderLock ==
    [][(log' # log \/ posted' # posted) => lock = "free"]_vars

\* ----------------------------------------------------------------- C12
\* C12: metrics_id and is_staff change only in a set_authenticated_user_info
\* call made with the metrics setting enabled (never in a denied call nor in
\* a start, report or flush step), and once one of them is set it never
\* returns to unset.
C12_IdentityInvariant ==
    /\ [][(metrics_id' # metrics_id \/ is_staff' # is_staff) =>
            /\ ~DeniedStep
            /\ UNCHANGED <<installation_id, session_id, clickhouse_events_queue,
                           flush_clickhouse_events_task, timers, pc, tasks,
                           posted, taken, nextEvent, starts>>]_vars
    /\ [][/\ metrics_id # None => metrics_id' # None
          /\ is_staff # None => is_staff' # None]_vars

\* ----------------------------------------------------------------- C13
\* The event lists that exist: the queue, the batches taken, and the lists
\* of the shipping tasks and of the requests posted.
EventLists ==
    {clickhouse_events_queue} \cup BagToSet(taken)
        \cup {k.events : k \in Shipped}
\* The signed_in flags that event number n carries, wherever it is.
FlagsOf(n) ==
    UNION {{b[i].signed_in : i \in {j \in 1 .. Len(b) : b[j].id = n}} :
           b \in EventLists}

\* C13: the event appended by a report carries signed_in = (metrics_id is
\* set in the state of the append); the flag of an event never changes
\* afterwards, in the queue, in a batch, in a task or in a request; and a
\* set_authenticated_user_info call that changes metrics_id touches no
\* event.
C13_SignedInAtEnqueue ==
    /\ [][ReportStep => \A n \in {nextEvent} :
                            FlagsOf(n)' = {metrics_id # None}]_vars
    /\ [][\A n \in 1 .. (nextEvent - 1) : FlagsOf(n)' = FlagsOf(n)]_vars
    /\ [][metrics_id' # metrics_id =>
            UNCHANGED <<clickhouse_events_queue, taken, tasks, posted>>]_vars

\* A request was posted with an event reported while signed in, after the
\* user had signed out: the request says signed_in, the state says unset.
C13_Witness ==
    /\ metrics_id = None
    /\ \E r \in BagToSet(posted) :
           /\ r.events # <<>>
           /\ r.events[1].signed_in
           /\ r.is_staff = "false"

\* ----------------------------------------------------------------- C14
\* How many shipping tasks and posted requests carry the batch b.
Submissions(b) ==
    BagCardinality([k \in {k \in BagToSet(tasks) : k.events = b} |-> tasks[k]])
    + BagCardinality([r \in {r \in BagToSet(posted) : r.events = b}
                         |-> posted[r]])

\* C14: a post that fails is like one that succeeds but for the logged
\* error: the task is gone after its one submission (no batch is submitted
\* more often than it was taken), the queue, the timers, the callers and the
\* rest of the state are untouched, and an error is logged only by a post.
C14_TransportFailureSwallowed ==
    /\ [](\A b \in BagToSet(taken) : Submissions(b) <= CopiesIn(b, taken))
    /\ [][posted' # posted =>
            /\ \E k \in BagToSet(tasks) :
                   /\ k.st = "post"
                   /\ tasks' = tasks (-) SetToBag({k})
                   /\ posted' = posted (+) SetToBag({RequestBody(k)})
            /\ UNCHANGED <<telemetryState, timers, pc, taken, log, lock,
                           nextEvent, samplers, starts, sinceEnqueue>>]_vars
    /\ [][errors' # errors => posted' # posted]_vars

\* The only post so far has failed; the pipeline has since taken a second
\* batch for a new shipping task and queued a further event.
C14_Witness ==
    /\ errors = 1
    /\ BagCardinality(posted) = 1
    /\ BagCardinality(tasks) = 1
    /\ BagCardinality(taken) = 2
    /\ \A b \in BagToSet(taken) : b # <<>>
    /\ clickhouse_events_queue # <<>>

\* ----------------------------------------------------------------- C15
\* The batch b is in the log, line after line in its own order.
Mirrored(b) ==
    \E i \in 0 .. Len(log) :
        /\ i + Len(b) <= Len(log)
        /\ SubSeq(log, i + 1, i + Len(b)) = b
\* The step takes the shipping task k through `if let Some(file) = ..`.
LogStepOf(k) ==
    /\ k.st = "log"
    /\ CopiesIn(k, tasks') < CopiesIn(k, tasks)

\* C15: with a log file, a shipping task goes from its start to the write
\* loop, the loop appends the events of its batch in enqueue order from the
\* first one on, and a task that is past the loop (and so every request it
\* posts) has its whole batch in the log; a failed write ends the task with
\* no request posted and nothing put back in the queue; without a log file
\* the task goes straight on to its request body, with nothing written and
\* no error.
C15_LocalLogStep ==
    /\ [][\A k \in BagToSet(tasks) : LogStepOf(k) =>
            IF log_file
            THEN /\ tasks' = Replace(k, [k EXCEPT !.st = "write"])
                 /\ UNCHANGED <<log, posted, errors>>
            ELSE /\ tasks' = Replace(k, [k EXCEPT !.st = "body"])
                 /\ UNCHANGED <<log, posted, errors, lock>>]_vars
    /\ [][log' # log =>
            \E k \in BagToSet(tasks) : \E n \in 1 .. Len(k.events) :
                /\ k.st = "write"
                /\ log' = log \o SubSeq(k.events, 1, n)
                /\ InEnqueueOrder(k.events)
                /\ posted' = posted]_vars
    /\ [](\A k \in BagToSet(tasks) :
              /\ k.mirrored => k.st \in {"body", "post"} /\ Mirrored(k.events)
              /\ k.st = "write" => log_file)
    /\ [][posted' # posted =>
            \A k \in BagToSet(tasks) :
                (k.mirrored /\ CopiesIn(k, tasks') < CopiesIn(k, tasks))
                    => Mirrored(k.events)]_vars
    /\ [][errors' # errors =>
            /\ \E k \in BagToSet(tasks) :
                   k.st = "write" /\ tasks' = tasks (-) SetToBag({k})
            /\ UNCHANGED <<posted, clickhouse_events_queue, taken, timers,
                           flush_clickhouse_events_task, pc>>]_vars

\* With a log file, the write of one batch has failed and its task is
\* gone (taken, never posted, not queued again); the other batch is in the
\* log and was posted afterwards.
C15_Witness ==
    /\ log_file
    /\ errors = 1
    /\ BagCardinality(taken) = 2
    /\ \A b \in BagToSet(taken) : b # <<>>
    /\ tasks = EmptyBag
    /\ clickhouse_events_queue = <<>>
    /\ BagCardinality(posted) = 1
    /\ \E r \in BagToSet(posted) : r.events = log

\* ----------------------------------------------------------------- C16
\* The step is the first report of a sampler tick (the Memory event).
MemoryReport == ReportStep /\ InTick' = InTick + 1
\* The step is the second report of a sampler tick (the Cpu event).
CpuReport == ReportStep /\ pc'["sampler_cpu"] = pc["sampler_cpu"] - 1
\* The step is the tick on which a sampler loop ends.
StopStep == samplers' < samplers

\* C16: the tick on which a sampler loop ends enqueues nothing and changes
\* nothing but the number of live loops; a sampler tick begins only in a
\* loop that has not ended, so once every loop has ended no Memory or Cpu
\* event is enqueued; only a start call brings a new loop.
C16_SamplerSelfTermination ==
    /\ [][StopStep =>
            /\ samplers' = samplers - 1
            /\ UNCHANGED <<telemetryState, timers, pc, tasks, posted, taken,
                           log, lock, nextEvent, sinceEnqueue, denied, errors,
                           starts>>]_vars
    /\ [](InTick <= samplers /\ samplers <= starts)
    /\ [][MemoryReport => samplers > InTick]_vars
    /\ [][CpuReport => pc["sampler_cpu"] > 0]_vars
    /\ [][samplers = 0 => ~(MemoryReport \/ CpuReport)]_vars
    /\ [][samplers' > samplers <=> StartStep]_vars

\* Every sampler loop that start has spawned has ended, and the pipeline has
\* accepted, flushed and posted all the events of the run.
C16_Witness ==
    /\ starts = MaxStarts
    /\ samplers = 0
    /\ Busy = 0
    /\ nextEvent = MaxEvents + 1
    /\ clickhouse_events_queue = <<>>
    /\ tasks = EmptyBag
    /\ BagCardinality(posted) >= 2

\* ----------------------------------------------------------------- C17
\* Event number n is waiting in the queue.
InQueue(n) == n \in Ids(clickhouse_events_queue)

\* C17: with the clock, the timer tasks and the callers running on, an
\* event that waits in the queue while installation_id is set is eventually
\* taken out of the queue by a flush (also when a later start call unsets
\* installation_id, since that call flushes).
C17_EventuallyFlushed ==
    \A n \in 1 .. MaxEvents :
        (InQueue(n) /\ installation_id # None) ~> ~InQueue(n)

\* Below the threshold, the only event of the run was reported after the
\* only start call and its debounce timer has flushed it.
C17_Witness ==
    /\ build = "release"
    /\ starts = 1
    /\ installation_id # None
    /\ nextEvent = 2
    /\ clickhouse_events_queue = <<>>
    /\ taken = SetToBag({<<[id |-> 1, signed_in |-> FALSE]>>})
    /\ timers = {}
    /\ sinceEnqueue = DEBOUNCE_INTERVAL

\* ----------------------------------------------------------------- C18
\* C18: whenever the lock is free, a pending debounce timer (the handle is
\* set, or a timer task is waiting for its timer) has a non-empty queue
\* behind it: the handle is set only by a report, right after its append,
\* and the step that empties the queue clears the handle.
C18_TimerImpliesQueue ==
    /\ []((LockFree /\ (flush_clickhouse_events_task # 0
                           \/ Waiting(timers) # {}))
             => clickhouse_events_queue # <<>>)
    /\ [][flush_clickhouse_events_task' \notin {0, flush_clickhouse_events_task}
            => (ReportStep /\ clickhouse_events_queue' # <<>>)]_vars
    /\ [][(clickhouse_events_queue # <<>> /\ clickhouse_events_queue' = <<>>)
            => flush_clickhouse_events_task' = 0]_vars

\* After a flush has cleared the handle, a new event has installed a timer
\* again.
C18_Witness ==
    /\ taken # EmptyBag
    /\ flush_clickhouse_events_task # 0
    /\ Waiting(timers) # {}
    /\ Len(clickhouse_events_queue) = 1

\* ----------------------------------------------------------------- C19
\* No start or report call is between its lock and the flush it decided on.
Quiescent == Busy = 0

\* C19: in a quiescent state with installation_id set the queue is shorter
\* than MAX_QUEUE_LEN; a queue of MAX_QUEUE_LEN events or more means that
\* installation_id is unset or that a flush is on its way.
C19_QueueBound ==
    /\ []((Quiescent /\ installation_id # None)
             => Len(clickhouse_events_queue) < MAX_QUEUE_LEN)
    /\ [](Len(clickhouse_events_queue) >= MAX_QUEUE_LEN
             => (installation_id = None \/ ~Quiescent))

\* MaxEvents events were buffered before start and flushed by it; with
\* installation_id set nothing is left in the queue.
C19_Witness ==
    /\ build = "release"
    /\ installation_id # None
    /\ Quiescent
    /\ clickhouse_events_queue = <<>>
    /\ \E b \in BagToSet(taken) : Len(b) = MaxEvents /\ Len(b) >= MAX_QUEUE_LEN

\* ----------------------------------------------------------------- C20
\* C20: in the debug build (MAX_QUEUE_LEN = 1) no debounce timer is ever
\* installed, and every accepted report made while installation_id is set
\* sends its caller straight to flush_clickhouse_events.
C20_DebugNoTimer ==
    /\ [](build = "debug" =>
            (timers = {} /\ flush_clickhouse_events_task = 0))
    /\ [][(build = "debug" /\ ReportStep /\ installation_id # None) =>
            /\ Len(clickhouse_events_queue') >= 1
            /\ pc' = Enter("report_flush")
            /\ UNCHANGED <<timers, flush_clickhouse_events_task, tasks>>]_vars

\* In the debug build every event of the run was reported after start and
\* flushed on its own: as many batches as events, and no timer.
C20_Witness ==
    /\ build = "debug"
    /\ installation_id # None
    /\ nextEvent = MaxEvents + 1
    /\ BagCardinality(taken) = MaxEvents
    /\ \A b \in BagToSet(taken) : Len(b) = 1
    /\ timers = {}

====
